---- MODULE Spec2Model ----
(***************************************************************************)
(* A model of go-preloader-http (src/main.go): the route registry, the     *)
(* capturing responder (InterceptWriter), the setup of the document shell  *)
(* and the per-request handler returned by HttpPreloader, with the         *)
(* goroutines it spawns for every ancestor prefix of the request path.     *)
(*                                                                         *)
(* Go strings are sequences of one-character strings, so that Split,       *)
(* HasPrefix, TrimPrefix, LastIndex and ToLower are computed on the        *)
(* characters as the library computes them.                                *)
(***************************************************************************)
EXTENDS Integers, Sequences, FiniteSets, TLC

\* ------------------------------------------------------------------ bounds

\* The longest request path, counted in "/"-delimited segments of
\* strings.Split(basePath, "/") (the leading empty segment included).
MaxSegments == 3

\* The longest document shell, counted in pieces of ShellPieces.
MaxShellPieces == 2

\* The most calls made on an InterceptWriter driven directly.
MaxCalls == 4

\* -------------------------------------------------------- program constants

\* http.StatusOK, the status of a fresh InterceptWriter and of a response
\* on which WriteHeader was never called.
StatusOK == 200

\* The captured status that suppresses header promotion.
StatusNotFound == 404

\* ------------------------------------------------------------------ strings

Slash == "/"
QMark == "?"
Dot == "."

\* unicode.ToLower on the characters the model uses.
LowerChar(c) ==
    CASE c = "B" -> "b"
      [] c = "O" -> "o"
      [] c = "D" -> "d"
      [] c = "Y" -> "y"
      [] c = "I" -> "i"
      [] c = "N" -> "n"
      [] c = "E" -> "e"
      [] c = "X" -> "x"
      [] c = "H" -> "h"
      [] c = "T" -> "t"
      [] c = "M" -> "m"
      [] c = "A" -> "a"
      [] OTHER -> c

\* strings.ToLower
ToLower(s) == [k \in 1..Len(s) |-> LowerChar(s[k])]

\* s[from:to] with Go's 0-based, end-exclusive indices.
Slice(s, from, to) == [k \in 1..(to - from) |-> s[from + k]]

\* Whether sub occurs in s at the 0-based index k.
OccursAt(s, sub, k) ==
    /\ k >= 0
    /\ k + Len(sub) <= Len(s)
    /\ \A j \in 1..Len(sub) : s[k + j] = sub[j]

\* The 0-based indices at which sub occurs in s.
Occurrences(s, sub) == {k \in 0..Len(s) : OccursAt(s, sub, k)}

SetMax(S) == CHOOSE x \in S : \A y \in S : y <= x
SetMin(S) == CHOOSE x \in S : \A y \in S : x <= y

\* strings.Index: the first occurrence, -1 when there is none.
Index(s, sub) ==
    IF Occurrences(s, sub) = {} THEN -1 ELSE SetMin(Occurrences(s, sub))

\* strings.LastIndex: the last occurrence, -1 when there is none.
LastIndex(s, sub) ==
    IF Occurrences(s, sub) = {} THEN -1 ELSE SetMax(Occurrences(s, sub))

\* strings.Contains
Contains(s, sub) == Occurrences(s, sub) # {}

\* strings.HasPrefix
HasPrefix(s, prefix) == OccursAt(s, prefix, 0)

\* strings.TrimPrefix
TrimPrefix(s, prefix) ==
    IF HasPrefix(s, prefix) THEN Slice(s, Len(prefix), Len(s)) ELSE s

\* strings.Split(s, sep) for a one-character separator: the fields between
\* the separators, Count(sep) + 1 of them.
RECURSIVE Split(_, _)
Split(s, sep) ==
    LET k == Index(s, <<sep>>) IN
    IF k = -1 THEN <<s>>
    ELSE <<Slice(s, 0, k)>> \o Split(Slice(s, k + 1, Len(s)), sep)

\* strings.SplitN(s, sep, 2): split at the first separator only.
SplitN2(s, sep) ==
    LET k == Index(s, <<sep>>) IN
    IF k = -1 THEN <<s>>
    ELSE <<Slice(s, 0, k), Slice(s, k + 1, Len(s))>>

RECURSIVE Concat(_)
Concat(ss) == IF ss = <<>> THEN <<>> ELSE Head(ss) \o Concat(Tail(ss))

\* ------------------------------------------------------------------- maps

\* A Go map is a function whose domain is the set of keys present.
EmptyMap == <<>>

\* m[k] = v
MapPut(m, k, v) == [x \in (DOMAIN m) \cup {k} |-> IF x = k THEN v ELSE m[x]]

\* ------------------------------------------------------- InterceptWriter

\* NewInterceptWriter: empty headers, status 200, empty buffer. Body is the
\* zero value until the first Write.
NewInterceptWriter ==
    [Headers |-> EmptyMap, StatusCode |-> StatusOK, Body |-> <<>>, buf |-> <<>>]

\* http.Header.Add on the map Header() returns: append v to the values of k.
HeaderAdd(h, k, v) ==
    MapPut(h, k, IF k \in DOMAIN h THEN Append(h[k], v) ELSE <<v>>)

\* A WriteHeader that keeps the first status set, as net/http's own
\* response does.
WriteHeaderOnce(iw, code) ==
    IF iw.StatusCode = StatusOK THEN [iw EXCEPT !.StatusCode = code] ELSE iw

\* (iw *InterceptWriter).WriteHeader
WriteHeader(iw, code) == [iw EXCEPT !.StatusCode = code]

\* A Write that forgets what was written before.
WriteReplacing(iw, b) == [iw EXCEPT !.buf = b, !.Body = b]

\* (iw *InterceptWriter).Write: append to the buffer, then Body is the
\* whole buffer as a string.
Write(iw, b) == [iw EXCEPT !.buf = iw.buf \o b, !.Body = iw.buf \o b]

\* What Write returns, line 52: len(b), nil.
WriteReturn(b) == [n |-> Len(b), err |-> "nil"]

\* One call a handler makes on the responder it was given.
ApplyOp(iw, op) ==
    CASE op.op = "Add" -> [iw EXCEPT !.Headers = HeaderAdd(iw.Headers, op.k, op.v)]
      [] op.op = "WriteHeader" -> WriteHeader(iw, op.code)
      [] op.op = "Write" -> Write(iw, op.b)

\* The calls of ops applied in order.
RECURSIVE ApplyOps(_, _)
ApplyOps(iw, ops) ==
    IF ops = <<>> THEN iw ELSE ApplyOps(ApplyOp(iw, Head(ops)), Tail(ops))

\* --------------------------------------------------------------- handlers

\* Application handlers are opaque functions (w, r). The model's handlers
\* are two kinds of function, each named so that a capture tells which
\* handler wrote it, and each echoing the query string of the request it
\* was given:
\*   "data"    adds two values of header X, writes its name, then the query;
\*   "missing" adds header E, sets status 404, writes its name, then the
\*             query.
HandlerKinds == {"data", "missing"}

HandlerCalls(h, req) ==
    IF h.kind = "data"
    THEN << [op |-> "Add", k |-> "X", v |-> "1"],
            [op |-> "Write", b |-> <<h.name>>],
            [op |-> "Add", k |-> "X", v |-> "2"],
            [op |-> "Write", b |-> req.RawQuery] >>
    ELSE << [op |-> "Add", k |-> "E", v |-> "1"],
            [op |-> "WriteHeader", code |-> StatusNotFound],
            [op |-> "Write", b |-> <<h.name>>],
            [op |-> "Write", b |-> req.RawQuery] >>

\* route.Handler(w, r): the responder after the handler returned.
RunHandler(h, iw, req) == ApplyOps(iw, HandlerCalls(h, req))

\* ---------------------------------------------------------- route registry

\* addRoute: create the method's map when missing, then insert or overwrite.
addRoute(rt, method, pattern, handler) ==
    LET inner == IF method \in DOMAIN rt THEN rt[method] ELSE EmptyMap IN
    MapPut(rt, method,
           MapPut(inner, pattern, [Path |-> pattern, Handler |-> handler]))

\* route, ok := ctx.routes[method][path]: indexing a missing method yields a
\* nil map, and indexing a nil map reports !ok.
RouteOk(rt, method, path) ==
    /\ method \in DOMAIN rt
    /\ path \in DOMAIN rt[method]

RouteOf(rt, method, path) == rt[method][path]

\* ---------------------------------------------------------------- requests

\* The request net/http hands to the handler for a request line with the
\* origin-form target uri: RequestURI is the target as sent, URL.Path the
\* part before the first "?", URL.RawQuery the part after it.
NewRequest(method, uri) ==
    LET parts == SplitN2(uri, QMark) IN
    [Method |-> method, RequestURI |-> uri, Path |-> parts[1],
     RawQuery |-> IF Len(parts) = 2 THEN parts[2] ELSE <<>>]

\* rCopy: r.Clone with URL.RawQuery cleared; everything else is kept.
ClearQuery(req) == [req EXCEPT !.RawQuery = <<>>]

\* requestIsDefaultIndex
requestIsDefaultIndex(path) ==
    LET lowerURI == ToLower(path)
        segments == Split(lowerURI, Slash)
        lastSegment == segments[Len(segments)]
    IN  \/ lastSegment = <<>>
        \/ lastSegment = <<"i","n","d","e","x",".","h","t","m","l">>
        \/ lastSegment = <<"i","n","d","e","x",".","h","t","m">>
        \/ ~Contains(lastSegment, <<Dot>>)

\* ----------------------------------------------------------- document shell

CloseBody == <<"<", "/", "b", "o", "d", "y", ">">>

\* A split before the first "</body>".
SplitShellAtFirst(reactIndexText) ==
    LET idx == Index(ToLower(reactIndexText), CloseBody) IN
    IF idx # -1
    THEN <<Slice(reactIndexText, 0, idx),
           Slice(reactIndexText, idx, Len(reactIndexText))>>
    ELSE <<reactIndexText, <<>>>>

\* Lines 147-157: the shell split before the last "</body>" of its
\* lower-cased text, or <<text, "">> when it has none.
SplitShell(reactIndexText) ==
    LET idx == LastIndex(ToLower(reactIndexText), CloseBody) IN
    IF idx # -1
    THEN <<Slice(reactIndexText, 0, idx),
           Slice(reactIndexText, idx, Len(reactIndexText))>>
    ELSE <<reactIndexText, <<>>>>

\* json.Marshal(preloadRequests): the exported fields of every entry (buf
\* is unexported and is not serialized), as one element of the text.
Marshal(bundle) ==
    ToString([k \in DOMAIN bundle |->
                [headers |-> bundle[k].Headers,
                 statusCode |-> bundle[k].StatusCode,
                 body |-> bundle[k].Body]])

\* Line 238: "<script>window.httpPreload=" + json + "</script>". The two
\* literals are one element each.
VarString(bundle) ==
    <<"<script>window.httpPreload=", Marshal(bundle), "</script>">>

\* ------------------------------------------------------ the real response

\* The http.ResponseWriter of the request before the handler touched it.
NewResponse ==
    [Header |-> EmptyMap, wroteHeader |-> FALSE, status |-> 0, body |-> <<>>]

\* w.Write(b): the first Write sends the header with status 200 when
\* WriteHeader was not called before.
ResponseWrite(resp, b) ==
    [resp EXCEPT !.wroteHeader = TRUE,
                 !.status = IF resp.wroteHeader THEN resp.status ELSE StatusOK,
                 !.body = resp.body \o b]

\* The status net/http sends for a response when the handler returns: the
\* one written, or 200 when the handler wrote nothing.
StatusSent(resp) == IF resp.wroteHeader THEN resp.status ELSE StatusOK

\* Lines 250-254: every value of every header of iw added to the response,
\* the values of one name in their order.
RECURSIVE AddValues(_, _, _)
AddValues(h, k, vv) ==
    IF vv = <<>> THEN h ELSE AddValues(HeaderAdd(h, k, Head(vv)), k, Tail(vv))

RECURSIVE AddAll(_, _, _)
AddAll(h, src, names) ==
    IF names = {} THEN h
    ELSE LET k == CHOOSE n \in names : TRUE IN
         AddAll(AddValues(h, k, src[k]), src, names \ {k})

\* A promotion that does not look at the captured status.
PromoteHeadersWhateverStatus(h, bundle, uri) ==
    IF uri \in DOMAIN bundle
    THEN AddAll(h, bundle[uri].Headers, DOMAIN bundle[uri].Headers)
    ELSE h

\* Lines 248-256: the headers of the response after promotion.
PromoteHeaders(h, bundle, uri) ==
    IF uri \in DOMAIN bundle
    THEN IF bundle[uri].StatusCode # StatusNotFound
         THEN AddAll(h, bundle[uri].Headers, DOMAIN bundle[uri].Headers)
         ELSE h
    ELSE h

\* ------------------------------------------------------------------ inputs

Methods == {"GET", "POST"}

\* The configured API prefix.
ApiPrefixes == {<<"/", "p">>}

\* "/" + seg1 + "/" + seg2 + ...
RECURSIVE JoinPath(_)
JoinPath(segs) ==
    IF segs = <<>> THEN <<>> ELSE <<Slash>> \o Head(segs) \o JoinPath(Tail(segs))

SegmentNames == {<<>>, <<"a">>}

\* Every path of at most MaxSegments segments over SegmentNames with at
\* most one empty segment after the leading one: the root, the chain paths,
\* paths with a trailing slash and paths with consecutive slashes.
DocPaths ==
    {JoinPath(ss) :
        ss \in {x \in UNION {[1..n -> SegmentNames] : n \in 1..(MaxSegments - 1)} :
                   Cardinality({j \in DOMAIN x : x[j] = <<>>}) <= 1}}

\* The k-th path of the chain "/", "/a", "/a/a", ...
ChainPath(k) == IF k = 1 THEN <<Slash>> ELSE JoinPath([j \in 1..(k - 1) |-> <<"a">>])

Query == <<"?", "q">>

\* Request targets: the document paths, the chain paths with a query
\* string, a default index file, a static asset, and targets under the API
\* prefix.
Targets ==
    DocPaths \cup {ChainPath(k) \o Query : k \in 1..MaxSegments}
    \cup { <<"/", "I", "n", "d", "e", "x", ".", "h", "t", "m">>,
           <<"/", "a", ".", "j">>,
           <<"/", "p">>,
           <<"/", "p", "/", "a">>,
           <<"/", "p", "/", "a", "?", "q">>,
           <<"/", "p", "a">> }

\* The requests: every target with GET, and the targets of the POST route.
Requests ==
    {NewRequest("GET", t) : t \in Targets}
    \cup {NewRequest("POST", t) : t \in {<<"/", "a">>, <<"/", "p", "/", "a">>}}

\* The application's registration code: a sequence of ctx.Get / ctx.Post /
\* ctx.Handle calls.
Reg(method, pattern, kind, name) ==
    [method |-> method, pattern |-> pattern,
     handler |-> [kind |-> kind, name |-> name]]

\* The chain paths that may have a route: "/", "/a" and "/a/a".
ChainNumbers == 1..3

\* GET routes on the chain paths numbered in on, the one numbered missing
\* with a handler that answers 404 and the others with handlers that
\* answer 200. Each handler is named after the number of its path.
RECURSIVE ChainProgram(_, _, _)
ChainProgram(on, missing, k) ==
    IF k \notin ChainNumbers THEN <<>>
    ELSE (IF k \in on
          THEN <<Reg("GET", ChainPath(k),
                     IF k = missing THEN "missing" ELSE "data", ToString(k))>>
          ELSE <<>>)
         \o ChainProgram(on, missing, k + 1)

\* Any set of routes of the chain with at most one 404 handler, or a POST
\* route, or a route registered twice.
RegPrograms ==
    {ChainProgram(on, missing, 1) :
        on \in SUBSET ChainNumbers, missing \in {0} \cup ChainNumbers}
    \cup { <<Reg("POST", <<"/", "a">>, "data", "post")>>,
           <<Reg("GET", <<"/", "a">>, "missing", "old"),
             Reg("GET", <<"/", "a">>, "data", "new")>> }

\* The routes and requests tried under the loop-variable semantics of Go
\* before 1.22.
SharedLoopVarPrograms ==
    {ChainProgram(on, missing, 1) : on \in SUBSET {1, 2}, missing \in {0, 2}}

SharedLoopVarRequests ==
    {NewRequest("GET", t) : t \in {<<Slash>>, <<"/", "?", "q">>, <<"/", "a">>,
                                   <<"/", "a", "?", "q">>}}

\* Document shells: every text of at most MaxShellPieces pieces.
ShellPieces == {<<"h">>, CloseBody, <<"<", "/", "B", "o", "d", "Y", ">">>}

Shells ==
    {Concat(ps) : ps \in UNION {[1..n -> ShellPieces] : n \in 0..MaxShellPieces}}

DefaultShell == <<"h">> \o CloseBody \o <<"t">>

\* ------------------------------------------------------------------- state

VARIABLES
    pc,                    \* where the program is
    app,                   \* registration calls the application has yet to make
    world,                 \* what setup finds: the shell text and whether it loads
    client,                \* the request that will arrive
    loopVarPerIteration,   \* whether the build gives each loop iteration its own i
    routes,                \* ctx.routes
    staggaredTestingMode,  \* ctx.staggaredTestingMode
    reactIndexTextParts,   \* ctx.reactIndexTextParts
    apiPrefix,             \* the prefix the returned handler closes over
    r,                     \* the request being served
    w,                     \* the real response
    pathSegments,          \* line 192
    i,                     \* the loop variable of line 199
    branch,                \* the outcome of the condition of line 200
    sum,                   \* the right-hand side of line 201 or 203, evaluated
    currentPathReq,        \* line 197, shared by the loop and every goroutine
    preloadRequests,       \* line 194
    mu,                    \* line 196: 0 when free, else the goroutine holding it
    wg,                    \* line 195: the WaitGroup counter
    task,                  \* the goroutines of lines 206-229, in spawn order (key: history)
    recordedBy,            \* history: which goroutine wrote each bundle entry
    calls,                 \* history: the handler invocations made
    served,                \* history: the branch of the request handler that ran
    writer,                \* an InterceptWriter a caller drives directly
    writerCalls            \* history: the calls made on writer, with what they returned

vars == <<pc, app, world, client, loopVarPerIteration, routes,
          staggaredTestingMode, reactIndexTextParts, apiPrefix, r, w,
          pathSegments, i, branch, sum, currentPathReq, preloadRequests, mu,
          wg, task, recordedBy, calls, served, writer, writerCalls>>

env == <<app, world, client, loopVarPerIteration, staggaredTestingMode,
        writer, writerCalls>>
config == <<env, served>>
request == <<pathSegments, i, branch, sum, currentPathReq, preloadRequests,
             mu, wg, task, recordedBy, calls>>

NoRequest == [Method |-> "", RequestURI |-> <<>>, Path |-> <<>>, RawQuery |-> <<>>]

\* NewHttpPreloaderContext: an empty registry and the testing flag; the
\* shell parts are nil. The application, the shell and the request that
\* will arrive are the program's environment, drawn from three families:
\* every shell and every outcome of loading it, with the root route and a
\* root or API request; every registration program with every request,
\* under the default shell; and the routes and requests of the first two
\* chain paths under the loop-variable semantics of Go before 1.22.
Init ==
    /\ pc = "build"
    /\ routes = EmptyMap
    /\ reactIndexTextParts = <<>>
    /\ apiPrefix = <<>>
    /\ r = NoRequest
    /\ w = NewResponse
    /\ pathSegments = <<>>
    /\ i = -1
    /\ branch = FALSE
    /\ sum = <<>>
    /\ currentPathReq = <<>>
    /\ preloadRequests = EmptyMap
    /\ mu = 0
    /\ wg = 0
    /\ task = <<>>
    /\ recordedBy = EmptyMap
    /\ calls = {}
    /\ served = [branch |-> "", path |-> <<>>]
    /\ writer = NewInterceptWriter
    /\ writerCalls = <<>>
    /\ \/ /\ world \in [shell : Shells, useProxy : BOOLEAN, loads : BOOLEAN]
          /\ app = ChainProgram({1}, 0, 1)
          /\ client \in {NewRequest("GET", <<Slash>>),
                         NewRequest("GET", <<"/", "p">>)}
          /\ loopVarPerIteration = TRUE
          /\ staggaredTestingMode \in BOOLEAN
       \/ /\ world = [shell |-> DefaultShell, useProxy |-> FALSE, loads |-> TRUE]
          /\ app \in RegPrograms
          /\ client \in Requests
          /\ loopVarPerIteration = TRUE
          /\ staggaredTestingMode = FALSE
       \/ /\ world = [shell |-> DefaultShell, useProxy |-> FALSE, loads |-> TRUE]
          /\ app \in SharedLoopVarPrograms
          /\ client \in SharedLoopVarRequests
          /\ loopVarPerIteration = FALSE
          /\ staggaredTestingMode = FALSE

\* ------------------------------------------------------- build and setup

\* ctx.Get, ctx.Post, ... ctx.Handle: the application's next registration.
Register ==
    /\ pc = "build"
    /\ app # <<>>
    /\ routes' = addRoute(routes, Head(app).method, Head(app).pattern,
                          Head(app).handler)
    /\ app' = Tail(app)
    /\ UNCHANGED <<pc, world, client, loopVarPerIteration, staggaredTestingMode,
                   reactIndexTextParts, apiPrefix, r, w, request, served,
                   writer, writerCalls>>

\* A setup that only logs the failure to read the file and returns the
\* handler.
SetupLoggingFailure(prefix) ==
    /\ pc = "build"
    /\ app = <<>>
    /\ apiPrefix' = prefix
    /\ IF world.useProxy /\ ~world.loads
       THEN /\ pc' = "panic"
            /\ UNCHANGED reactIndexTextParts
       ELSE /\ reactIndexTextParts' =
                  SplitShell(IF world.loads THEN world.shell ELSE <<>>)
            /\ pc' = "serving"
    /\ UNCHANGED <<config, routes, r, w, request>>

\* HttpPreloader(next, apiPrefix, reactAppBuildRoot), lines 117-166. When the
\* proxy fetch fails resp is nil and line 134 dereferences it: the program
\* panics. When the file cannot be read the text is empty, the parts are
\* still set, and log.Fatal ends the process at line 160.
Setup(prefix) ==
    /\ pc = "build"
    /\ app = <<>>
    /\ apiPrefix' = prefix
    /\ IF world.useProxy /\ ~world.loads
       THEN /\ pc' = "panic"
            /\ UNCHANGED reactIndexTextParts
       ELSE /\ reactIndexTextParts' =
                  SplitShell(IF world.loads THEN world.shell ELSE <<>>)
            /\ pc' = IF world.loads THEN "serving" ELSE "fatal"
    /\ UNCHANGED <<config, routes, r, w, request>>

\* ------------------------------------------------------- classification

\* Line 169: a request is an API request when its path starts with the
\* API prefix.
IsApiRequest(path, prefix) == HasPrefix(path, prefix)

\* A stripped path without the default to the root.
DirectApiPathAsTrimmed(path, prefix) == TrimPrefix(path, prefix)

\* Lines 265-268: the path the registry is asked for.
DirectApiPath(path, prefix) ==
    LET directApiPath == TrimPrefix(path, prefix) IN
    IF Len(directApiPath) = 0 THEN <<Slash>> ELSE directApiPath

\* ---------------------------------------------------- the request handler

\* An API branch that answers 404 when the registry has no route.
ServeApiNotFound ==
    /\ pc = "serving"
    /\ IsApiRequest(client.Path, apiPrefix)
    /\ r' = client
    /\ served' = [branch |-> "api", path |-> DirectApiPath(client.Path, apiPrefix)]
    /\ LET directApiPath == DirectApiPath(client.Path, apiPrefix) IN
       IF RouteOk(routes, client.Method, directApiPath)
       THEN LET route == RouteOf(routes, client.Method, directApiPath)
                preloadWriter == RunHandler(route.Handler, NewInterceptWriter, client)
            IN  /\ calls' = calls \cup {[route |-> route, req |-> client, by |-> 0]}
                /\ w' = ResponseWrite(w, preloadWriter.buf)
       ELSE /\ calls' = calls
            /\ w' = [w EXCEPT !.wroteHeader = TRUE, !.status = StatusNotFound,
                               !.body = <<"404 page not found">>]
    /\ pc' = "done"
    /\ UNCHANGED <<env, routes, reactIndexTextParts, apiPrefix, pathSegments,
                   i, branch, sum, currentPathReq, preloadRequests, mu, wg, task,
                   recordedBy>>

\* An API branch that sends the captured status and headers with the body.
ServeApiCopyingCapture ==
    /\ pc = "serving"
    /\ IsApiRequest(client.Path, apiPrefix)
    /\ r' = client
    /\ served' = [branch |-> "api", path |-> DirectApiPath(client.Path, apiPrefix)]
    /\ LET directApiPath == DirectApiPath(client.Path, apiPrefix) IN
       IF RouteOk(routes, client.Method, directApiPath)
       THEN LET route == RouteOf(routes, client.Method, directApiPath)
                preloadWriter == RunHandler(route.Handler, NewInterceptWriter, client)
            IN  /\ calls' = calls \cup {[route |-> route, req |-> client, by |-> 0]}
                /\ w' = [w EXCEPT !.Header = preloadWriter.Headers,
                                  !.wroteHeader = TRUE,
                                  !.status = preloadWriter.StatusCode,
                                  !.body = preloadWriter.buf]
       ELSE UNCHANGED <<calls, w>>
    /\ pc' = "done"
    /\ UNCHANGED <<env, routes, reactIndexTextParts, apiPrefix, pathSegments,
                   i, branch, sum, currentPathReq, preloadRequests, mu, wg, task,
                   recordedBy>>

\* Lines 262-276: an API request. The handler, when there is one, runs
\* against a fresh InterceptWriter and its buffer is written to the
\* response.
ServeApi ==
    /\ pc = "serving"
    /\ IsApiRequest(client.Path, apiPrefix)
    /\ r' = client
    /\ served' = [branch |-> "api", path |-> DirectApiPath(client.Path, apiPrefix)]
    /\ LET directApiPath == DirectApiPath(client.Path, apiPrefix) IN
       IF RouteOk(routes, client.Method, directApiPath)
       THEN LET route == RouteOf(routes, client.Method, directApiPath)
                preloadWriter == RunHandler(route.Handler, NewInterceptWriter, client)
            IN  /\ calls' = calls \cup {[route |-> route, req |-> client, by |-> 0]}
                /\ w' = ResponseWrite(w, preloadWriter.buf)
       ELSE UNCHANGED <<calls, w>>
    /\ pc' = "done"
    /\ UNCHANGED <<env, routes, reactIndexTextParts, apiPrefix, pathSegments,
                   i, branch, sum, currentPathReq, preloadRequests, mu, wg, task,
                   recordedBy>>

\* Lines 171-186: a path that is no default index is handed to the dev
\* server or to the file server, which answer with a file or with 404.
ServeStatic ==
    /\ pc = "serving"
    /\ ~IsApiRequest(client.Path, apiPrefix)
    /\ ~requestIsDefaultIndex(client.Path)
    /\ r' = client
    /\ served' = [branch |-> "static", path |-> client.Path]
    /\ \E found \in BOOLEAN :
          w' = [w EXCEPT !.wroteHeader = TRUE,
                         !.status = IF found THEN StatusOK ELSE StatusNotFound,
                         !.body = <<"static">>]
    /\ pc' = "done"
    /\ UNCHANGED <<env, routes, reactIndexTextParts, apiPrefix, request>>

\* Line 261: in the testing mode the shell is written as it is.
ServeShell ==
    /\ pc = "serving"
    /\ ~IsApiRequest(client.Path, apiPrefix)
    /\ requestIsDefaultIndex(client.Path)
    /\ staggaredTestingMode
    /\ r' = client
    /\ served' = [branch |-> "shell", path |-> client.Path]
    /\ w' = ResponseWrite(w, reactIndexTextParts[1] \o reactIndexTextParts[2])
    /\ pc' = "done"
    /\ UNCHANGED <<env, routes, reactIndexTextParts, apiPrefix, request>>

\* Lines 190-197: a document route. The path is the target up to the first
\* "?", split on "/".
StartPreload ==
    /\ pc = "serving"
    /\ ~IsApiRequest(client.Path, apiPrefix)
    /\ requestIsDefaultIndex(client.Path)
    /\ ~staggaredTestingMode
    /\ r' = client
    /\ served' = [branch |-> "preload", path |-> SplitN2(client.RequestURI, QMark)[1]]
    /\ LET parts == SplitN2(client.RequestURI, QMark)
           basePath == parts[1]
       IN  pathSegments' = Split(basePath, Slash)
    /\ preloadRequests' = EmptyMap
    /\ currentPathReq' = <<>>
    /\ pc' = "loop"
    /\ UNCHANGED <<env, routes, reactIndexTextParts, apiPrefix, w, i, branch,
                   sum, mu, wg, task, recordedBy, calls>>

\* ------------------------------------------------- the loop of line 199

\* The loop and the goroutines share currentPathReq without a lock, and
\* under a language version older than 1.22 they share i as well. Each
\* read and each write of a shared variable is a step of its own, and a
\* read sees the value last written.

LastIndexOfSegments == Len(pathSegments) - 1

\* The prefix after one more segment, lines 200-204.
NextPrefix(endsWithSlash, prefix, segment) ==
    IF endsWithSlash THEN prefix \o segment ELSE prefix \o <<Slash>> \o segment

\* Line 200: does the prefix end with "/"?
EndsWithSlash(prefix) == Len(prefix) > 0 /\ prefix[Len(prefix)] = Slash

NoRoute == [Path |-> <<>>, Handler |-> [kind |-> "", name |-> ""]]

\* The goroutine line 206 starts.
NewTask ==
    [pc |-> "lookup", route |-> NoRoute, preloadWriter |-> NewInterceptWriter,
     key |-> <<>>]

\* for i, segment := range pathSegments: the next index, or the end of the
\* loop (i keeps the last index).
LoopNext ==
    /\ pc = "loop"
    /\ IF i + 1 < Len(pathSegments)
       THEN i' = i + 1 /\ pc' = "cond"
       ELSE i' = i /\ pc' = "wait"
    /\ UNCHANGED <<config, routes, reactIndexTextParts, apiPrefix, r, w,
                   pathSegments, branch, sum, currentPathReq, preloadRequests,
                   mu, wg, task, recordedBy, calls>>

\* Line 200: does currentPathReq end with "/"?
LoopCond ==
    /\ pc = "cond"
    /\ branch' = EndsWithSlash(currentPathReq)
    /\ pc' = "sum"
    /\ UNCHANGED <<config, routes, reactIndexTextParts, apiPrefix, r, w,
                   pathSegments, i, sum, currentPathReq, preloadRequests, mu,
                   wg, task, recordedBy, calls>>

\* Lines 201, 203: the right-hand side is evaluated.
LoopSum ==
    /\ pc = "sum"
    /\ sum' = NextPrefix(branch, currentPathReq, pathSegments[i + 1])
    /\ pc' = "go"
    /\ UNCHANGED <<config, routes, reactIndexTextParts, apiPrefix, r, w,
                   pathSegments, i, branch, currentPathReq, preloadRequests, mu,
                   wg, task, recordedBy, calls>>

\* Lines 201/203 assign, line 205 counts the goroutine, line 206 starts it.
LoopGo ==
    /\ pc = "go"
    /\ currentPathReq' = sum
    /\ wg' = wg + 1
    /\ task' = Append(task, NewTask)
    /\ pc' = "loop"
    /\ UNCHANGED <<config, routes, reactIndexTextParts, apiPrefix, r, w,
                   pathSegments, i, branch, sum, preloadRequests, mu,
                   recordedBy, calls>>

\* ------------------------------------------- the goroutine of lines 206-229

\* The i the goroutine spawned t-th reads: its iteration's own (Go 1.22 and
\* later) or the loop's single variable (before).
ClosureI(t) == IF loopVarPerIteration THEN t - 1 ELSE i

\* A goroutine that returns without wg.Done when it finds no route.
GoLookupWithoutDone(t) ==
    /\ task[t].pc = "lookup"
    /\ IF RouteOk(routes, r.Method, currentPathReq)
       THEN task' = [task EXCEPT ![t] =
                   [pc |-> "invoke",
                    route |-> RouteOf(routes, r.Method, currentPathReq),
                    preloadWriter |-> NewInterceptWriter,
                    key |-> <<>>]]
       ELSE task' = [task EXCEPT ![t].pc = "done"]
    /\ UNCHANGED <<pc, config, routes, reactIndexTextParts, apiPrefix, r, w,
                   pathSegments, i, branch, sum, currentPathReq, preloadRequests,
                   mu, wg, recordedBy, calls>>

\* Line 208: the registry is asked for the current value of currentPathReq.
\* Without a route the goroutine returns and the deferred wg.Done runs.
GoLookup(t) ==
    /\ task[t].pc = "lookup"
    /\ IF RouteOk(routes, r.Method, currentPathReq)
       THEN /\ task' = [task EXCEPT ![t] =
                   [pc |-> "invoke",
                    route |-> RouteOf(routes, r.Method, currentPathReq),
                    preloadWriter |-> NewInterceptWriter,
                    key |-> <<>>]]
            /\ wg' = wg
       ELSE /\ task' = [task EXCEPT ![t].pc = "done"]
            /\ wg' = wg - 1
    /\ UNCHANGED <<pc, config, routes, reactIndexTextParts, apiPrefix, r, w,
                   pathSegments, i, branch, sum, currentPathReq, preloadRequests,
                   mu, recordedBy, calls>>

\* Lines 210-219: the request the handler is given.
RequestFor(index, last, req) == IF index = last THEN req ELSE ClearQuery(req)

GoInvoke(t) ==
    /\ task[t].pc = "invoke"
    /\ LET req == RequestFor(ClosureI(t), LastIndexOfSegments, r) IN
       /\ task' = [task EXCEPT
               ![t].preloadWriter =
                   RunHandler(task[t].route.Handler, task[t].preloadWriter, req),
               ![t].pc = "check"]
       /\ calls' = calls \cup {[route |-> task[t].route, req |-> req, by |-> t]}
    /\ UNCHANGED <<pc, config, routes, reactIndexTextParts, apiPrefix, r, w,
                   pathSegments, i, branch, sum, currentPathReq, preloadRequests,
                   mu, wg, recordedBy>>

\* Lines 221-223: the goroutine of the last segment overwrites the shared
\* currentPathReq with the request target.
GoCheck(t) ==
    /\ task[t].pc = "check"
    /\ currentPathReq' = IF ClosureI(t) = LastIndexOfSegments
                         THEN r.RequestURI ELSE currentPathReq
    /\ task' = [task EXCEPT ![t].pc = "lock"]
    /\ UNCHANGED <<pc, config, routes, reactIndexTextParts, apiPrefix, r, w,
                   pathSegments, i, branch, sum, preloadRequests, mu, wg,
                   recordedBy, calls>>

\* A goroutine that enters the insertion without waiting for the lock.
GoLockWithoutWaiting(t) ==
    /\ task[t].pc = "lock"
    /\ mu' = t
    /\ task' = [task EXCEPT ![t].pc = "insert"]
    /\ UNCHANGED <<pc, config, routes, reactIndexTextParts, apiPrefix, r, w,
                   pathSegments, i, branch, sum, currentPathReq, preloadRequests,
                   wg, recordedBy, calls>>

\* Line 225: mu.Lock() returns once the lock is free.
GoLock(t) ==
    /\ task[t].pc = "lock"
    /\ mu = 0
    /\ mu' = t
    /\ task' = [task EXCEPT ![t].pc = "insert"]
    /\ UNCHANGED <<pc, config, routes, reactIndexTextParts, apiPrefix, r, w,
                   pathSegments, i, branch, sum, currentPathReq, preloadRequests,
                   wg, recordedBy, calls>>

\* Lines 226-227, then the deferred wg.Done of line 207: the capture is
\* stored under the current value of currentPathReq and the lock is
\* released. Nothing reads the map or the lock between the store and the
\* release, so they are one step.
GoInsert(t) ==
    /\ task[t].pc = "insert"
    /\ mu = t
    /\ preloadRequests' = MapPut(preloadRequests, currentPathReq,
                                 task[t].preloadWriter)
    /\ recordedBy' = MapPut(recordedBy, currentPathReq, t)
    /\ mu' = 0
    /\ wg' = wg - 1
    /\ task' = [task EXCEPT ![t].pc = "done", ![t].key = currentPathReq]
    /\ UNCHANGED <<pc, config, routes, reactIndexTextParts, apiPrefix, r, w,
                   pathSegments, i, branch, sum, currentPathReq, calls>>

\* ------------------------------------------------------ join and response

\* A handler that goes on to the response without waiting.
WaitWithoutJoin ==
    /\ pc = "wait"
    /\ pc' = "respond"
    /\ UNCHANGED <<config, routes, reactIndexTextParts, apiPrefix, r, w, request>>

\* Line 232: wg.Wait returns when the counter is zero.
Wait ==
    /\ pc = "wait"
    /\ wg = 0
    /\ pc' = "respond"
    /\ UNCHANGED <<config, routes, reactIndexTextParts, apiPrefix, r, w, request>>

\* Lines 237-246: the document sent.
RequestedReactIndexText(parts, bundle) ==
    parts[1] \o VarString(bundle) \o parts[2]

\* A response that is sent with the status of the request target's capture.
RespondWithCapturedStatus ==
    /\ pc = "respond"
    /\ w' = [w EXCEPT
               !.Header = PromoteHeaders(w.Header, preloadRequests, r.RequestURI),
               !.wroteHeader = TRUE,
               !.status = IF r.RequestURI \in DOMAIN preloadRequests
                          THEN preloadRequests[r.RequestURI].StatusCode
                          ELSE StatusOK,
               !.body = RequestedReactIndexText(reactIndexTextParts,
                                                preloadRequests)]
    /\ pc' = "done"
    /\ UNCHANGED <<config, routes, reactIndexTextParts, apiPrefix, r, request>>

\* Lines 237-258: the bundle is serialized into the shell, the headers of
\* the entry of the request target are promoted, and the document is
\* written without a status being set.
Respond ==
    /\ pc = "respond"
    /\ w' = ResponseWrite(
              [w EXCEPT !.Header = PromoteHeaders(w.Header, preloadRequests,
                                                  r.RequestURI)],
              RequestedReactIndexText(reactIndexTextParts, preloadRequests))
    /\ pc' = "done"
    /\ UNCHANGED <<config, routes, reactIndexTextParts, apiPrefix, r, request>>

\* --------------------------------------------------------- specification

Next ==
    \/ Register
    \/ \E prefix \in ApiPrefixes : Setup(prefix)
    \/ ServeApi
    \/ ServeStatic
    \/ ServeShell
    \/ StartPreload
    \/ LoopNext
    \/ LoopCond
    \/ LoopSum
    \/ LoopGo
    \/ \E t \in DOMAIN task : GoLookup(t)
    \/ \E t \in DOMAIN task : GoInvoke(t)
    \/ \E t \in DOMAIN task : GoCheck(t)
    \/ \E t \in DOMAIN task : GoLock(t)
    \/ \E t \in DOMAIN task : GoInsert(t)
    \/ Wait
    \/ Respond

Spec == Init /\ [][Next]_vars

\* ------------------------------------- the InterceptWriter driven directly

\* A caller holding a fresh InterceptWriter makes up to MaxCalls calls of
\* WriteHeader and Write on it, with any of these arguments.
StatusCodes == {StatusOK, StatusNotFound}

Chunks == {<<>>, <<"a">>, <<"b", "c">>}

WriterInit ==
    /\ pc = "writer"
    /\ app = <<>>
    /\ world = [shell |-> DefaultShell, useProxy |-> FALSE, loads |-> TRUE]
    /\ client = NoRequest
    /\ loopVarPerIteration = TRUE
    /\ staggaredTestingMode = FALSE
    /\ routes = EmptyMap
    /\ reactIndexTextParts = <<>>
    /\ apiPrefix = <<>>
    /\ r = NoRequest
    /\ w = NewResponse
    /\ pathSegments = <<>>
    /\ i = -1
    /\ branch = FALSE
    /\ sum = <<>>
    /\ currentPathReq = <<>>
    /\ preloadRequests = EmptyMap
    /\ mu = 0
    /\ wg = 0
    /\ task = <<>>
    /\ recordedBy = EmptyMap
    /\ calls = {}
    /\ served = [branch |-> "", path |-> <<>>]
    /\ writer = NewInterceptWriter
    /\ writerCalls = <<>>

\* iw.WriteHeader(code)
CallWriteHeader(code) ==
    /\ pc = "writer"
    /\ Len(writerCalls) < MaxCalls
    /\ writer' = WriteHeader(writer, code)
    /\ writerCalls' = Append(writerCalls,
                             [op |-> "WriteHeader", code |-> code, b |-> <<>>,
                              n |-> 0, err |-> ""])
    /\ UNCHANGED <<pc, app, world, client, loopVarPerIteration,
                   staggaredTestingMode, routes, reactIndexTextParts, apiPrefix,
                   r, w, request, served>>

\* n, err := iw.Write(b)
CallWrite(b) ==
    /\ pc = "writer"
    /\ Len(writerCalls) < MaxCalls
    /\ writer' = Write(writer, b)
    /\ writerCalls' = Append(writerCalls,
                             [op |-> "Write", code |-> 0, b |-> b,
                              n |-> WriteReturn(b).n, err |-> WriteReturn(b).err])
    /\ UNCHANGED <<pc, app, world, client, loopVarPerIteration,
                   staggaredTestingMode, routes, reactIndexTextParts, apiPrefix,
                   r, w, request, served>>

WriterNext ==
    \/ \E code \in StatusCodes : CallWriteHeader(code)
    \/ \E b \in Chunks : CallWrite(b)

WriterSpec == WriterInit /\ [][WriterNext]_vars

\* ------------------------------------------------------------ properties

\* The request was a document route served with preloading, and every
\* goroutine it spawned has been waited for.
Joined == served.branch = "preload" /\ pc \in {"respond", "done"}

\* The strict ancestor prefixes of a path: the root and every cut before a
\* "/", the path itself excluded.
StrictAncestors(path) ==
    ({<<Slash>>} \cup
     {SubSeq(path, 1, k) : k \in {j \in 1..(Len(path) - 1) : path[j + 1] = Slash}})
    \ {path}

\* The invocations of the handler registered for path p.
CallsOf(p) == {c \in calls : c.route.Path = p}

\* C1: within one document-route request the handler registered for a
\* prefix is invoked at most once, in every interleaving.
C1_HandlerInvokedAtMostOnce ==
    served.branch = "preload" =>
        \A c \in calls : Cardinality(CallsOf(c.route.Path)) <= 1

\* C2: after the join the bundle holds an entry for every ancestor prefix
\* of the request path that has a handler under the request's method: under
\* the prefix for a strict ancestor, under the request target for the path
\* itself.
C2_BundleHoldsEveryAncestor ==
    Joined =>
        /\ \A p \in StrictAncestors(r.Path) :
              RouteOk(routes, r.Method, p) => p \in DOMAIN preloadRequests
        /\ RouteOk(routes, r.Method, r.Path) =>
              r.RequestURI \in DOMAIN preloadRequests

\* C3: every bundle entry is keyed by a strict ancestor prefix and holds the
\* capture of the handler registered for that prefix, or is keyed by the
\* request target and holds the capture of the handler registered for the
\* full path.
C3_EntryKeyedByItsHandlersPath ==
    served.branch = "preload" =>
        \A k \in DOMAIN preloadRequests :
            LET route == task[recordedBy[k]].route IN
            \/ k \in StrictAncestors(r.Path) /\ route.Path = k
            \/ k = r.RequestURI /\ route.Path = r.Path

\* The document of a preloading request has been written.
Answered == served.branch = "preload" /\ pc = "done"

\* C4: headers reach the document response if and only if the bundle holds
\* an entry under the request target whose status is not 404; then the
\* response has every header of the entry with its values in their order,
\* and otherwise it has none.
C4_HeaderPromotion ==
    Answered =>
        IF /\ r.RequestURI \in DOMAIN preloadRequests
           /\ preloadRequests[r.RequestURI].StatusCode # StatusNotFound
        THEN w.Header = preloadRequests[r.RequestURI].Headers
        ELSE w.Header = EmptyMap

\* Reached: a response that carries both values of a promoted header, in
\* the order the handler added them.
C4_Witness ==
    /\ Answered
    /\ r.RequestURI \in DOMAIN preloadRequests
    /\ preloadRequests[r.RequestURI].StatusCode = StatusOK
    /\ "X" \in DOMAIN w.Header
    /\ w.Header["X"] = <<"1", "2">>

\* C5: when a goroutine of a strict ancestor and the goroutine of the last
\* segment store under the same key, the entry left after the join is the
\* one of the goroutine of the last segment.
C5_TerminalCaptureWins ==
    Joined =>
        LET last == Len(task) IN
        \A t \in 1..(last - 1) :
            /\ task[t].route # NoRoute
            /\ task[last].route # NoRoute
            /\ task[t].key = task[last].key
            => recordedBy[task[last].key] = last

\* C6: a handler registered at a strict ancestor prefix is only given a
\* request with an empty query string, and the handler registered at the
\* full path is given the original request.
C6_QueryOnlyForTerminalHandler ==
    served.branch = "preload" =>
        \A c \in calls :
            /\ c.route.Path \in StrictAncestors(r.Path) => c.req.RawQuery = <<>>
            /\ c.route.Path = r.Path => c.req = r

\* The bytes a sequence of responder calls writes, in call order.
RECURSIVE WrittenBytes(_)
WrittenBytes(ops) ==
    IF ops = <<>> THEN <<>>
    ELSE (IF Head(ops).op = "Write" THEN Head(ops).b ELSE <<>>)
         \o WrittenBytes(Tail(ops))

\* C7: an API request whose stripped path has a handler invokes that
\* handler exactly once, and the response body is exactly the bytes the
\* handler wrote, in write order.
C7_ApiBodyIsCapturedBody ==
    /\ pc = "done"
    /\ served.branch = "api"
    /\ RouteOk(routes, r.Method, served.path)
    => LET route == RouteOf(routes, r.Method, served.path) IN
       /\ calls = {[route |-> route, req |-> r, by |-> 0]}
       /\ w.body = WrittenBytes(HandlerCalls(route.Handler, r))

\* Reached: an API response made of two writes, the handler's name and the
\* query string it was given.
C7_Witness ==
    /\ pc = "done"
    /\ served.branch = "api"
    /\ r.RawQuery = <<"q">>
    /\ w.body = <<"2", "q">>

\* C8: the document response never takes its status from a capture: it is
\* sent with status 200.
C8_DocumentStatusIsDefault ==
    Answered => w.wroteHeader /\ w.status = StatusOK

\* Reached: a document sent with 200 while the entry of the request target
\* holds 404.
C8_Witness ==
    /\ Answered
    /\ r.RequestURI \in DOMAIN preloadRequests
    /\ preloadRequests[r.RequestURI].StatusCode = StatusNotFound
    /\ w.status = StatusOK

\* The indices of the shell at which "</body>" stands, in any case of its
\* letters.
CloseBodyAt(shell) ==
    {k \in 0..Len(shell) :
        /\ k + Len(CloseBody) <= Len(shell)
        /\ \A j \in 1..Len(CloseBody) : LowerChar(shell[k + j]) = CloseBody[j]}

\* The shell with the marker of the bundle before index k.
MarkerBefore(shell, k, bundle) ==
    SubSeq(shell, 1, k) \o VarString(bundle) \o SubSeq(shell, k + 1, Len(shell))

C10_Classification ==
    pc = "done" =>
        LET n == Len(apiPrefix)
            starts == Len(r.Path) >= n /\ SubSeq(r.Path, 1, n) = apiPrefix
            rest == SubSeq(r.Path, n + 1, Len(r.Path))
        IN  /\ served.branch \in {"api", "static", "shell", "preload"}
            /\ served.branch = "api" <=> starts
            /\ served.branch = "api" =>
                  served.path = IF rest = <<>> THEN <<Slash>> ELSE rest

\* Reached: an API request for the prefix itself, looked up as "/".
C10_Witness ==
    /\ pc = "done"
    /\ served.branch = "api"
    /\ r.Path = apiPrefix
    /\ served.path = <<Slash>>
    /\ calls # {}

\* The loop of line 199 has ended: every prefix has been generated.
LoopEnded == served.branch = "preload" /\ pc \in {"wait", "respond", "done"}

\* The number of "/"-delimited segments of a path: one more than its "/".
SegmentCount(path) == Cardinality({k \in 1..Len(path) : path[k] = Slash}) + 1

\* C11: for every request path the loop generates as many prefixes as the
\* path has "/"-delimited segments, and the last prefix it generates is the
\* path itself.
C11_PrefixPerSegmentLastIsPath ==
    LoopEnded =>
        /\ Len(task) = SegmentCount(served.path)
        /\ sum = served.path

\* C12: a document-route request for "/" generates one prefix and starts one
\* goroutine, which invokes the handler registered at "/" once and leaves
\* one bundle entry.
C12_RootDispatchedOnce ==
    (LoopEnded /\ served.path = <<Slash>>) =>
        /\ Len(task) = 1
        /\ Cardinality(calls) <= 1
        /\ (Joined /\ RouteOk(routes, r.Method, <<Slash>>)) =>
              /\ Cardinality(calls) = 1
              /\ Cardinality(DOMAIN preloadRequests) = 1

\* ---------------------------------------------------------------- fairness

\* The steps of the handler of a document request: the loop of line 199,
\* the goroutines of line 206, the join and the response.
Handle ==
    \/ LoopNext
    \/ LoopCond
    \/ LoopSum
    \/ LoopGo
    \/ \E t \in DOMAIN task : GoLookup(t)
    \/ \E t \in DOMAIN task : GoInvoke(t)
    \/ \E t \in DOMAIN task : GoCheck(t)
    \/ \E t \in DOMAIN task : GoLock(t)
    \/ \E t \in DOMAIN task : GoInsert(t)
    \/ Wait
    \/ Respond

\* The environments the fair specification starts from: the routes of the
\* first two chain paths, any one of them answering 404, with the chain
\* paths of fewer than MaxSegments segments requested with and without a
\* query string, an API target and a static asset, under both
\* loop-variable semantics and with the testing flag on or off.
FairPrograms ==
    {ChainProgram(on, missing, 1) : on \in SUBSET {1, 2}, missing \in {0, 1, 2}}

FairRequests ==
    {NewRequest("GET", t) :
        t \in {ChainPath(k) : k \in 1..(MaxSegments - 1)}
              \cup {ChainPath(k) \o Query : k \in 1..(MaxSegments - 1)}
              \cup {<<"/", "p", "/", "a">>, <<"/", "a", ".", "j">>}}

FairInit ==
    /\ pc = "build"
    /\ routes = EmptyMap
    /\ reactIndexTextParts = <<>>
    /\ apiPrefix = <<>>
    /\ r = NoRequest
    /\ w = NewResponse
    /\ pathSegments = <<>>
    /\ i = -1
    /\ branch = FALSE
    /\ sum = <<>>
    /\ currentPathReq = <<>>
    /\ preloadRequests = EmptyMap
    /\ mu = 0
    /\ wg = 0
    /\ task = <<>>
    /\ recordedBy = EmptyMap
    /\ calls = {}
    /\ served = [branch |-> "", path |-> <<>>]
    /\ writer = NewInterceptWriter
    /\ writerCalls = <<>>
    /\ world = [shell |-> DefaultShell, useProxy |-> FALSE, loads |-> TRUE]
    /\ app \in FairPrograms
    /\ client \in FairRequests
    /\ loopVarPerIteration \in BOOLEAN
    /\ staggaredTestingMode \in BOOLEAN

\* The Go scheduler runs every runnable goroutine, the loop's and the ones
\* line 206 started: the handler does not stop while one of its steps is
\* possible.
FairSpec == FairInit /\ [][Next]_vars /\ WF_vars(Handle)

\* The document of lines 237-246 has been written, once.
DocumentWritten ==
    /\ pc = "done"
    /\ w.body = RequestedReactIndexText(reactIndexTextParts, preloadRequests)

\* C13: every document-route request is eventually past the join with the
\* one document (shell head, marker, shell tail) written, whatever the
\* registry holds and whatever statuses the handlers captured.
C13_DocumentRequestCompletes ==
    (served.branch = "preload") ~> DocumentWritten

\* A request answered although one prefix had no handler and another
\* handler captured status 404.
C13_Witness ==
    /\ served.branch = "preload"
    /\ DocumentWritten
    /\ \E t \in DOMAIN task : task[t].route = NoRoute
    /\ \E k \in DOMAIN preloadRequests :
          preloadRequests[k].StatusCode = StatusNotFound

\* Setup has ended without returning the request handler: the panic of
\* line 134 or the log.Fatal of line 160.
Aborted == pc \in {"panic", "fatal"}

WriteHeaderCalls == SelectSeq(writerCalls, LAMBDA c : c.op = "WriteHeader")

\* C15: after any sequence of WriteHeader and Write calls on a fresh
\* InterceptWriter its status is the argument of the last WriteHeader (200
\* without one), its body is the written bytes concatenated in call order
\* (empty without a Write), and every Write returned len(b) and no error.
C15_WriterHoldsLastStatusAndAllBytes ==
    pc = "writer" =>
        /\ writer.StatusCode =
              IF WriteHeaderCalls = <<>> THEN StatusOK
              ELSE WriteHeaderCalls[Len(WriteHeaderCalls)].code
        /\ writer.Body = WrittenBytes(writerCalls)
        /\ writer.buf = WrittenBytes(writerCalls)
        /\ \A k \in DOMAIN writerCalls :
              writerCalls[k].op = "Write" =>
                  /\ writerCalls[k].n = Len(writerCalls[k].b)
                  /\ writerCalls[k].err = "nil"

\* Two statuses were set, the second one 200 after a 404, and two
\* non-empty chunks were written.
C15_Witness ==
    /\ pc = "writer"
    /\ Len(WriteHeaderCalls) = 2
    /\ WriteHeaderCalls[1].code = StatusNotFound
    /\ WriteHeaderCalls[2].code = StatusOK
    /\ Cardinality({k \in DOMAIN writerCalls :
                       writerCalls[k].op = "Write" /\ writerCalls[k].b # <<>>}) = 2
    /\ writer.Body = <<"b", "c", "a">>

\* The prefix lines 200-204 build for the k-th segment when nothing but the
\* loop writes currentPathReq.
RECURSIVE PrefixOf(_, _)
PrefixOf(segs, k) ==
    IF k = 0 THEN <<>>
    ELSE NextPrefix(EndsWithSlash(PrefixOf(segs, k - 1)),
                    PrefixOf(segs, k - 1), segs[k])

\* C16: the prefix a goroutine looks up and the key it inserts under are
\* fixed by the segment it was started for (the prefix of that segment, and
\* the request target as key for the last segment), whatever the loop and
\* the other goroutines do meanwhile.
C16_TaskUsesItsOwnPrefix ==
    served.branch = "preload" =>
        \A t \in DOMAIN task :
            task[t].route # NoRoute =>
                /\ task[t].route.Path = PrefixOf(pathSegments, t)
                /\ task[t].pc = "done" =>
                      task[t].key = IF t = Len(pathSegments) THEN r.RequestURI
                                    ELSE PrefixOf(pathSegments, t)

\* Past the join a goroutine was started for every segment, none is still
\* running, the WaitGroup counter is zero and the lock is free.
AllTasksDoneAtJoin ==
    Joined =>
        /\ Len(task) = Len(pathSegments)
        /\ \A t \in DOMAIN task : task[t].pc = "done"
        /\ wg = 0
        /\ mu = 0

\* C17: the bundle is serialized and consulted for header promotion only
\* after every goroutine started for the request has finished: past the
\* join every goroutine is done, and from the join on no step starts a
\* goroutine, moves one or changes the bundle.
C17_BundleReadAfterAllTasksDone ==
    /\ []AllTasksDoneAtJoin
    /\ [][Joined => /\ preloadRequests' = preloadRequests
                    /\ task' = task]_vars

\* A request past the join whose goroutines, one of them without a route,
\* left two bundle entries.
C17_Witness ==
    /\ Joined
    /\ pc = "respond"
    /\ Len(task) = 3
    /\ \E t \in DOMAIN task : task[t].route = NoRoute
    /\ Cardinality(DOMAIN preloadRequests) = 2

\* The goroutines between mu.Lock() and mu.Unlock(), lines 225-227.
Inserting == {t \in DOMAIN task : task[t].pc = "insert"}

\* At most one goroutine is inserting, and it is the one holding the lock.
MutualExclusion ==
    /\ Cardinality(Inserting) <= 1
    /\ \A t \in DOMAIN task : (t \in Inserting) <=> (mu = t)
    /\ mu \in {0} \cup DOMAIN task

\* C18: no two goroutines of a request are inside the insertion of lines
\* 225-227 at once, and every goroutine that waits for the lock gets it,
\* inserts and releases it.
C18_InsertionMutuallyExclusive ==
    /\ []MutualExclusion
    /\ \A t \in 1..MaxSegments :
          (t \in DOMAIN task /\ task[t].pc = "lock")
              ~> (t \in DOMAIN task /\ task[t].pc = "done" /\ mu # t)

\* One goroutine is inserting while another waits for the lock.
C18_Witness ==
    \E t, u \in DOMAIN task :
        /\ task[t].pc = "insert"
        /\ mu = t
        /\ task[u].pc = "lock"

\* The API branch has run for the stripped path served.path.
ApiAnswered == served.branch = "api" /\ pc = "done"

\* C19: an API request whose stripped path has no handler under the
\* request's method invokes no handler and writes nothing: the response is
\* as the handler found it, with an empty body, and is sent with the
\* default status.
C19_ApiWithoutRouteWritesNothing ==
    (ApiAnswered /\ ~RouteOk(routes, r.Method, served.path)) =>
        /\ calls = {}
        /\ w = NewResponse
        /\ w.body = <<>>
        /\ StatusSent(w) = StatusOK

\* A POST under the API prefix whose stripped path has a GET route only.
C19_Witness ==
    /\ ApiAnswered
    /\ r.Method = "POST"
    /\ ~RouteOk(routes, "POST", served.path)
    /\ RouteOk(routes, "GET", served.path)

\* C20: on the API branch only the captured body reaches the response: it
\* is sent with status 200 and without any header, whatever status and
\* headers the handler set on its InterceptWriter.
C20_ApiStatusAndHeadersUntouched ==
    (ApiAnswered /\ RouteOk(routes, r.Method, served.path)) =>
        /\ w.Header = NewResponse.Header
        /\ StatusSent(w) = StatusOK
        /\ w.status = StatusOK
        /\ w.body = RunHandler(RouteOf(routes, r.Method, served.path).Handler,
                               NewInterceptWriter, r).buf

\* An API request whose handler set status 404 and a header on its
\* InterceptWriter.
C20_Witness ==
    /\ ApiAnswered
    /\ RouteOk(routes, r.Method, served.path)
    /\ LET captured == RunHandler(RouteOf(routes, r.Method, served.path).Handler,
                                  NewInterceptWriter, r)
       IN  /\ captured.StatusCode = StatusNotFound
           /\ captured.Headers # EmptyMap
           /\ w.body = captured.buf

====
